---- MODULE Spec2Model ----
(***************************************************************************)
(* mongorunway: the migration domain model (Migration, MigrationProcess,   *)
(* MigrationReadModel of mongorunway/domain/migration.py), the rule-gated  *)
(* execution of a process, and the filename strategies.                    *)
(*                                                                         *)
(* A Migration holds its two processes by reference: the model keeps the   *)
(* processes in `procs`, keyed by direction, and the migration's           *)
(* upgrade_process / downgrade_process fields hold the key.                *)
(***************************************************************************)
EXTENDS Integers, Sequences, FiniteSets, TLC

VARIABLES m, procs, ctor, last, input

vars == <<m, procs, ctor, last, input>>

(***************************************************************************)
(* Bounds and input universes.                                             *)
(***************************************************************************)
\* Total number of rules attached to the two processes of the migration.
MaxRules == 3

\* Filenames are sequences of characters: a run of up to MaxDigits digits
\* followed by up to MaxTail further characters.
MaxDigits == 11

MaxTail == 2

\* Longest stem of a Python file name handed to the module loaders.
MaxStem == 3

Names == {"create_users", "add_index"}
Versions == {1, 2}
Checksums == {"9f2c"}
Descriptions == {"create users"}

Dirs == {"upgrade", "downgrade"}

\* The commands of each process, fixed when the process is constructed.
CommandsOf(dir) ==
    IF dir = "upgrade" THEN <<"create_collection", "create_index">>
    ELSE <<"drop_collection">>

\* Business rules that may be attached: rule_name is the rule's name,
\* depends_on the names it depends on.
Rules == {"R1", "R2", "R3"}

rule_name(r) == r

depends_on(r) ==
    CASE r = "R1" -> <<>>
      [] r = "R2" -> <<"R1">>
      [] OTHER -> <<"R2">>

render_broken_rule(r) == <<"Business rule ", rule_name(r), " is broken.">>

(***************************************************************************)
(* Helpers.                                                                *)
(***************************************************************************)
Range(s) == {s[i] : i \in DOMAIN s}

Restrict(f, K) == [k \in K |-> f[k]]

Reverse(s) == [i \in 1..Len(s) |-> s[Len(s) + 1 - i]]

\* The outcome of a call: the value it returned, or the error it raised.
Returned(v) == [raised |-> "none", value |-> <<v>>]

Raised(e) == [raised |-> e, value |-> <<>>]

(***************************************************************************)
(* Migration.                                                              *)
(***************************************************************************)
Migration(name, version, checksum, is_applied, description, up, down) ==
    [name |-> name, version |-> version, checksum |-> checksum,
     is_applied |-> is_applied, description |-> description,
     upgrade_process |-> up, downgrade_process |-> down]

set_is_applied_toggles(mig, value) == [mig EXCEPT !.is_applied = ~mig.is_applied]

set_is_applied(mig, value) == [mig EXCEPT !.is_applied = value]

to_dict_id_only_when_not_unique(mig, unique) ==
    LET mapping == [name |-> mig.name, version |-> mig.version,
                    checksum |-> mig.checksum, is_applied |-> mig.is_applied,
                    description |-> mig.description]
    IN  IF ~unique THEN mapping @@ [_id |-> mig.version] ELSE mapping

to_dict(mig, unique) ==
    LET mapping == [name |-> mig.name, version |-> mig.version,
                    checksum |-> mig.checksum, is_applied |-> mig.is_applied,
                    description |-> mig.description]
    IN  IF unique THEN mapping @@ [_id |-> mig.version] ELSE mapping

(***************************************************************************)
(* MigrationReadModel: a dataclass with five required fields, no defaults. *)
(***************************************************************************)
ReadModelFields == {"name", "version", "checksum", "description", "is_applied"}

\* cls(**kwargs): the dataclass constructor raises TypeError for a missing
\* required argument and for an unexpected keyword argument.
MigrationReadModel(kwargs) ==
    IF DOMAIN kwargs = ReadModelFields
    THEN Returned([name |-> kwargs["name"], version |-> kwargs["version"],
                   checksum |-> kwargs["checksum"],
                   description |-> kwargs["description"],
                   is_applied |-> kwargs["is_applied"]])
    ELSE Raised("TypeError")

from_dict_defaults_is_applied(mapping) ==
    LET popped == Restrict(mapping, DOMAIN mapping \ {"_id"})
    IN  IF "is_applied" \in DOMAIN popped THEN MigrationReadModel(popped)
        ELSE MigrationReadModel(popped @@ [is_applied |-> FALSE])

from_dict_keeps_id(mapping) == MigrationReadModel(mapping)

from_dict(mapping) ==
    LET popped == Restrict(mapping, DOMAIN mapping \ {"_id"})
    IN  MigrationReadModel(popped)

from_migration(mig) ==
    MigrationReadModel([name |-> mig.name, version |-> mig.version,
                        checksum |-> mig.checksum,
                        description |-> mig.description,
                        is_applied |-> mig.is_applied])

(***************************************************************************)
(* MigrationProcess.                                                       *)
(***************************************************************************)
MigrationProcess(commands, migration_version, name) ==
    [rules |-> <<>>, name |-> name, commands |-> commands,
     migration_version |-> migration_version]

rules_reversed(proc) == Reverse(proc.rules)

rules(proc) == proc.rules

has_rules(proc) == proc.rules # <<>>

add_rule_prepends(proc, rule) == [proc EXCEPT !.rules = <<rule>> \o @]

add_rule(proc, rule) == [proc EXCEPT !.rules = Append(@, rule)]

(***************************************************************************)
(* State after construction: two new processes and the migration that      *)
(* holds them.                                                             *)
(***************************************************************************)
NoCall == [op |-> "new", on |-> "none", arg |-> <<>>, ret |-> <<>>]

\* The filename a strategy is asked about; none in the migration's own life.
NoInput == [strategy |-> "none"]

Init ==
    \E name \in Names, version \in Versions, checksum \in Checksums,
       is_applied \in BOOLEAN, description \in Descriptions :
        /\ procs = [d \in Dirs |-> MigrationProcess(CommandsOf(d), version, d)]
        /\ m = Migration(name, version, checksum, is_applied, description,
                         "upgrade", "downgrade")
        /\ ctor = [m |-> m, procs |-> procs]
        /\ last = NoCall
        /\ input = NoInput

(***************************************************************************)
(* Calls on the migration and the read model.                              *)
(***************************************************************************)
SetIsApplied ==
    \E value \in BOOLEAN :
        /\ m' = set_is_applied(m, value)
        /\ last' = [op |-> "set_is_applied", on |-> "migration",
                    arg |-> value, ret |-> <<>>]
        /\ UNCHANGED <<procs, ctor, input>>

ToDict ==
    \E unique \in BOOLEAN :
        /\ last' = [op |-> "to_dict", on |-> "migration",
                    arg |-> unique, ret |-> to_dict(m, unique)]
        /\ UNCHANGED <<m, procs, ctor, input>>

FromMigration ==
    /\ last' = [op |-> "from_migration", on |-> "read_model",
                arg |-> <<>>, ret |-> from_migration(m)]
    /\ UNCHANGED <<m, procs, ctor, input>>

\* MigrationReadModel.from_dict(m.to_dict(unique=unique))
RoundTrip ==
    \E unique \in BOOLEAN :
        /\ last' = [op |-> "round_trip", on |-> "read_model",
                    arg |-> unique, ret |-> from_dict(to_dict(m, unique))]
        /\ UNCHANGED <<m, procs, ctor, input>>

\* Persisted documents handed to from_dict: any subset of the keys of a
\* stored document, of the identity key and of a key the read model does
\* not know.
DocumentKeys == ReadModelFields \cup {"_id", "revision"}

StoredDocuments ==
    {[name |-> "create_users", version |-> 1, checksum |-> "9f2c",
      description |-> "create users", is_applied |-> TRUE, _id |-> 1,
      revision |-> 7],
     [name |-> "add_index", version |-> 2, checksum |-> "41aa",
      description |-> "", is_applied |-> FALSE, _id |-> 2,
      revision |-> 8]}

Documents == {Restrict(doc, K) : doc \in StoredDocuments, K \in SUBSET DocumentKeys}

FromDict ==
    \E mapping \in Documents :
        /\ last' = [op |-> "from_dict", on |-> "read_model",
                    arg |-> mapping, ret |-> from_dict(mapping)]
        /\ UNCHANGED <<m, procs, ctor, input>>

(***************************************************************************)
(* Calls on a process.                                                     *)
(***************************************************************************)
TotalRules == Len(procs["upgrade"].rules) + Len(procs["downgrade"].rules)

\* add_rule returns self: the call's result is the process it was called on.
AddRule ==
    \E d \in Dirs, rule \in Rules :
        /\ TotalRules < MaxRules
        /\ procs' = [procs EXCEPT ![d] = add_rule(procs[d], rule)]
        /\ last' = [op |-> "add_rule", on |-> d, arg |-> rule, ret |-> d]
        /\ UNCHANGED <<m, ctor, input>>

HasRules ==
    \E d \in Dirs :
        /\ last' = [op |-> "has_rules", on |-> d, arg |-> <<>>,
                    ret |-> has_rules(procs[d])]
        /\ UNCHANGED <<m, procs, ctor, input>>

\* The migration and its processes.
Next ==
    \/ SetIsApplied
    \/ ToDict
    \/ FromMigration
    \/ AddRule
    \/ HasRules

Spec == Init /\ [][Next]_vars

\* The migration and its projection to and from persisted documents.
ReadModelNext ==
    \/ SetIsApplied
    \/ ToDict
    \/ FromMigration
    \/ RoundTrip
    \/ FromDict

ReadModelSpec == Init /\ [][ReadModelNext]_vars

(***************************************************************************)
(* Execution of a process, gated by its business rules.  One call is one   *)
(* synchronous pass: the rules are evaluated in sequence order, then, if   *)
(* none is broken, the commands run in order and the outcome is recorded   *)
(* on the migration.  What the client makes each check_is_broken return    *)
(* (or raise) and which command, if any, raises are inputs of the call.    *)
(***************************************************************************)
CheckOutcomes == {"ok", "broken", "raise"}

NoEvaluation ==
    [evaluated |-> {}, broken |-> {}, status |-> <<>>, calls |-> <<>>,
     diagnostics |-> <<>>, fault |-> FALSE]

\* check_is_broken of the rule at position i is invoked: it returns or raises.
invoke_check(rs, chk, i, acc) ==
    CASE chk[i] = "raise" ->
            [acc EXCEPT !.status = Append(@, "raised"),
                        !.calls = Append(@, 1),
                        !.fault = TRUE]
      [] chk[i] = "broken" ->
            [acc EXCEPT !.evaluated = @ \cup {rule_name(rs[i])},
                        !.broken = @ \cup {rule_name(rs[i])},
                        !.status = Append(@, "broken"),
                        !.calls = Append(@, 1),
                        !.diagnostics = Append(@, render_broken_rule(rs[i]))]
      [] OTHER ->
            [acc EXCEPT !.evaluated = @ \cup {rule_name(rs[i])},
                        !.status = Append(@, "passed"),
                        !.calls = Append(@, 1)]

\* The rule at position i, given the pass so far.  After a raised error the
\* pass is over: the remaining rules are neither invoked nor reported.  A
\* rule with a dependency that is unresolved or broken is broken unasked.
evaluate_rule(rs, chk, i, acc) ==
    LET unmet == \E dep \in Range(depends_on(rs[i])) :
                     dep \notin acc.evaluated \/ dep \in acc.broken
    IN  IF acc.fault
        THEN [acc EXCEPT !.status = Append(@, "not_evaluated"),
                         !.calls = Append(@, 0)]
        ELSE IF unmet
        THEN [acc EXCEPT !.evaluated = @ \cup {rule_name(rs[i])},
                         !.broken = @ \cup {rule_name(rs[i])},
                         !.status = Append(@, "broken"),
                         !.calls = Append(@, 0),
                         !.diagnostics = Append(@, render_broken_rule(rs[i]))]
        ELSE invoke_check(rs, chk, i, acc)

RECURSIVE evaluate_from(_, _, _, _)
evaluate_from(rs, chk, i, acc) ==
    IF i > Len(rs) THEN acc
    ELSE evaluate_from(rs, chk, i + 1, evaluate_rule(rs, chk, i, acc))

\* Rule evaluation is skipped for a process without rules.
evaluate_rules(proc, chk) ==
    IF has_rules(proc) THEN evaluate_from(rules(proc), chk, 1, NoEvaluation)
    ELSE NoEvaluation

execution_outcome(ev, fail) ==
    IF ev.fault THEN "rule_fault"
    ELSE IF ev.diagnostics # <<>> THEN "blocked"
    ELSE IF fail # 0 THEN "command_failed"
    ELSE "done"

\* The commands whose execution was started: all of them, or those up to
\* and including the one that raised; none when the rules did not clear.
started_commands(proc, outcome, fail) ==
    CASE outcome = "done" -> proc.commands
      [] outcome = "command_failed" -> SubSeq(proc.commands, 1, fail)
      [] OTHER -> <<>>

\* The commands run only when the rules cleared: only then can one raise.
Execute ==
    \E d \in Dirs :
        \E chk \in [1..Len(procs[d].rules) -> CheckOutcomes] :
            LET ev == evaluate_rules(procs[d], chk)
                cleared == ~ev.fault /\ ev.diagnostics = <<>>
            IN  \E fail \in IF cleared THEN 0..Len(procs[d].commands) ELSE {0} :
                    LET outcome == execution_outcome(ev, fail)
                    IN  /\ m' = IF outcome = "done"
                                THEN set_is_applied(m, d = "upgrade")
                                ELSE m
                        /\ last' =
                               [op |-> "execute", on |-> d, arg |-> <<>>,
                                ret |-> [outcome |-> outcome,
                                         status |-> ev.status,
                                         calls |-> ev.calls,
                                         diagnostics |-> ev.diagnostics,
                                         started |->
                                             started_commands(procs[d], outcome, fail)]]
                        /\ UNCHANGED <<procs, ctor, input>>

EngineInit ==
    /\ Init
    /\ m.name = "create_users"
    /\ m.version = 1

EngineNext ==
    \/ AddRule
    \/ Execute
    \/ FromMigration

EngineSpec == EngineInit /\ [][EngineNext]_vars

(***************************************************************************)
(* Filename strategies: Missing, Numerical, Unix.                          *)
(***************************************************************************)
Strategies == {"Missing", "Numerical", "Unix"}

DigitChars == <<"0", "1", "2", "3", "4", "5", "6", "7", "8", "9">>

Digit(n) == DigitChars[n + 1]

IsDigit(c) == c \in Range(DigitChars)

\* Width of the Numerical prefix, and least length of a Unix timestamp.
NumericalWidth == 3

UnixMinDigits == 10

\* str(n) for n >= 0.
RECURSIVE decimal(_)
decimal(n) ==
    IF n < 10 THEN <<Digit(n)>> ELSE decimal(n \div 10) \o <<Digit(n % 10)>>

\* Zero padding to a least width: longer text is kept whole.
zero_pad(text, width) ==
    IF Len(text) >= width THEN text
    ELSE [i \in 1..(width - Len(text)) |-> "0"] \o text

format_position_unpadded(position) == decimal(position)

format_position(position) == zero_pad(decimal(position), NumericalWidth)

\* Length of the run of digits the filename starts with.
RECURSIVE leading_digits(_)
leading_digits(f) ==
    IF f = <<>> \/ ~IsDigit(Head(f)) THEN 0 ELSE 1 + leading_digits(Tail(f))

is_valid_filename_unix_any_length(strategy, f) ==
    CASE strategy = "Missing" -> TRUE
      [] strategy = "Numerical" ->
            /\ Len(f) > NumericalWidth
            /\ \A i \in 1..NumericalWidth : IsDigit(f[i])
            /\ f[NumericalWidth + 1] = "_"
      [] OTHER ->
            /\ leading_digits(f) >= 1
            /\ Len(f) > leading_digits(f)
            /\ f[leading_digits(f) + 1] = "_"

is_valid_filename(strategy, f) ==
    CASE strategy = "Missing" -> TRUE
      [] strategy = "Numerical" ->
            /\ Len(f) > NumericalWidth
            /\ \A i \in 1..NumericalWidth : IsDigit(f[i])
            /\ f[NumericalWidth + 1] = "_"
      [] OTHER ->
            /\ leading_digits(f) >= UnixMinDigits
            /\ Len(f) > leading_digits(f)
            /\ f[leading_digits(f) + 1] = "_"

\* What Unix does with a filename that is not valid is not part of its
\* contract: it is a pure function of its inputs that either leaves the
\* filename as it is or prefixes a timestamp; `unspecified` says which.
UnixPolicies == {"unchanged", "timestamp"}

Timestamp == <<"1", "7", "0", "0", "0", "0", "0", "0", "0", "0">>

transform_migration_filename_renumbers(strategy, f, position, unspecified) ==
    CASE strategy = "Missing" -> f
      [] strategy = "Numerical" ->
            IF is_valid_filename(strategy, f)
            THEN format_position(position)
                     \o SubSeq(f, NumericalWidth + 1, Len(f))
            ELSE format_position(position) \o <<"_">> \o f
      [] OTHER ->
            IF is_valid_filename(strategy, f) \/ unspecified = "unchanged"
            THEN f
            ELSE Timestamp \o <<"_">> \o f

transform_migration_filename(strategy, f, position, unspecified) ==
    CASE strategy = "Missing" -> f
      [] strategy = "Numerical" ->
            IF is_valid_filename(strategy, f) THEN f
            ELSE format_position(position) \o <<"_">> \o f
      [] OTHER ->
            IF is_valid_filename(strategy, f) \/ unspecified = "unchanged"
            THEN f
            ELSE Timestamp \o <<"_">> \o f

\* Inputs: the digit runs 1, 12, 123, ... and every tail over TailChars.
DigitRun(k) == [i \in 1..k |-> Digit(i % 10)]

TailChars == {"_", "a", "7"}

Tails == UNION {[1..n -> TailChars] : n \in 0..MaxTail}

Filenames == {DigitRun(k) \o t : k \in 0..MaxDigits, t \in Tails} \ {<<>>}

Positions == {0, 2, 45, 999, 1000}

\* The strategies are pure functions: the initial state draws the filename,
\* the positions and the strategy, and the calls apply the strategy to them.
Inputs ==
    [strategy : Strategies, filename : Filenames, position : Positions,
     again : Positions, unspecified : UnixPolicies]

FilenameInit ==
    /\ input \in Inputs
    /\ procs = [d \in Dirs |-> MigrationProcess(CommandsOf(d), 1, d)]
    /\ m = Migration("create_users", 1, "9f2c", FALSE, "create users",
                     "upgrade", "downgrade")
    /\ ctor = [m |-> m, procs |-> procs]
    /\ last = NoCall

IsValidFilename ==
    /\ last' = [op |-> "is_valid_filename", on |-> input.strategy,
                arg |-> [filename |-> input.filename],
                ret |-> is_valid_filename(input.strategy, input.filename)]
    /\ UNCHANGED <<m, procs, ctor, input>>

TransformMigrationFilename ==
    /\ last' = [op |-> "transform_migration_filename", on |-> input.strategy,
                arg |-> [filename |-> input.filename,
                         position |-> input.position],
                ret |-> transform_migration_filename(
                            input.strategy, input.filename, input.position,
                            input.unspecified)]
    /\ UNCHANGED <<m, procs, ctor, input>>

\* transform_migration_filename applied to its own result, at a position
\* that may differ.
TransformTwice ==
    LET first == transform_migration_filename(
                     input.strategy, input.filename, input.position,
                     input.unspecified)
        second == transform_migration_filename(
                      input.strategy, first, input.again, input.unspecified)
    IN  /\ last' = [op |-> "transform_twice", on |-> input.strategy,
                    arg |-> [filename |-> input.filename,
                             position |-> input.position,
                             again |-> input.again],
                    ret |-> [first |-> first, second |-> second]]
        /\ UNCHANGED <<m, procs, ctor, input>>

FilenameNext ==
    \/ IsValidFilename
    \/ TransformMigrationFilename
    \/ TransformTwice

FilenameSpec == FilenameInit /\ [][FilenameNext]_vars

(***************************************************************************)
(* kernel/util.py: the module name import_module and get_module derive     *)
(* from a file name.                                                       *)
(***************************************************************************)
\* str.rstrip(chars): drops every trailing character that is in chars.
RECURSIVE rstrip(_, _)
rstrip(text, chars) ==
    IF text # <<>> /\ text[Len(text)] \in chars
    THEN rstrip(SubSeq(text, 1, Len(text) - 1), chars)
    ELSE text

\* The argument ".py" of rstrip, as the set of its characters.
PyChars == {".", "p", "y"}

\* import_module(module_path, py_file_to_concat=...): the dotted name handed
\* to importlib.import_module; `given` is whether py_file_to_concat is set.
import_module(module_path, given, py_file_to_concat) ==
    IF given
    THEN module_path \o <<".">> \o rstrip(py_file_to_concat, PyChars)
    ELSE module_path

\* os.path.join(directory, filename) for a relative filename.
path_join(directory, filename) ==
    IF directory = <<>> \/ directory[Len(directory)] = "/"
    THEN directory \o filename
    ELSE directory \o <<"/">> \o filename

\* get_module(directory, filename): the name and the location handed to
\* importlib.util.spec_from_file_location.
get_module(directory, filename) ==
    [name |-> rstrip(filename, PyChars),
     location |-> path_join(directory, filename)]

StemChars == {"a", "p", "y", ".", "_"}

Stems == UNION {[1..n -> StemChars] : n \in 0..MaxStem}

PyFilenames == Stems \cup {stem \o <<".", "p", "y">> : stem \in Stems}

ModulePaths == {<<"m">>, <<"a", ".", "m">>}

Directories == {<<"m">>, <<"a", "/">>}

UtilInputs ==
    [strategy : {"util"}, filename : PyFilenames \ {<<>>},
     module_path : ModulePaths, directory : Directories, given : BOOLEAN]

UtilInit ==
    /\ input \in UtilInputs
    /\ procs = [d \in Dirs |-> MigrationProcess(CommandsOf(d), 1, d)]
    /\ m = Migration("create_users", 1, "9f2c", FALSE, "create users",
                     "upgrade", "downgrade")
    /\ ctor = [m |-> m, procs |-> procs]
    /\ last = NoCall

ImportModule ==
    /\ last' = [op |-> "import_module", on |-> "util",
                arg |-> [module_path |-> input.module_path,
                         given |-> input.given,
                         py_file_to_concat |-> input.filename],
                ret |-> import_module(input.module_path, input.given,
                                      input.filename)]
    /\ UNCHANGED <<m, procs, ctor, input>>

GetModule ==
    /\ last' = [op |-> "get_module", on |-> "util",
                arg |-> [directory |-> input.directory,
                         filename |-> input.filename],
                ret |-> get_module(input.directory, input.filename)]
    /\ UNCHANGED <<m, procs, ctor, input>>

UtilNext ==
    \/ ImportModule
    \/ GetModule

UtilSpec == UtilInit /\ [][UtilNext]_vars

(***************************************************************************)
(* Claims about the migration, its processes and the read model.           *)
(***************************************************************************)
ScalarFields == {"name", "version", "checksum", "description", "is_applied"}

\* C1: the read model rebuilt by from_dict from m.to_dict(unique), for
\* either value of unique, is returned without error and equals
\* from_migration(m) on name, version, checksum, description and is_applied,
\* whatever set_is_applied calls came before.
C1_RoundTrip ==
    last.op = "round_trip" =>
        /\ last.ret.raised = "none"
        /\ from_migration(m).raised = "none"
        /\ \A f \in ScalarFields :
               last.ret.value[1][f] = from_migration(m).value[1][f]

\* A round trip with the identity key, taken after set_is_applied changed
\* the flag given at construction.
C1_Witness ==
    /\ last.op = "round_trip"
    /\ last.arg = TRUE
    /\ m.is_applied # ctor.m.is_applied

\* C2: set_is_applied(value) sets is_applied to value and changes no other
\* field of the migration and nothing in either process; name, version,
\* checksum and description always equal their values at construction.
C2_SetIsAppliedFrame ==
    /\ [](/\ m.name = ctor.m.name
          /\ m.version = ctor.m.version
          /\ m.checksum = ctor.m.checksum
          /\ m.description = ctor.m.description)
    /\ [][last'.op = "set_is_applied" =>
            /\ m'.is_applied = last'.arg
            /\ \A f \in DOMAIN m \ {"is_applied"} : m'[f] = m[f]
            /\ DOMAIN m' = DOMAIN m
            /\ procs' = procs]_vars

\* set_is_applied(FALSE) on a migration constructed as applied, with rules
\* attached to its upgrade process.
C2_Witness ==
    /\ last.op = "set_is_applied"
    /\ last.arg = FALSE
    /\ ctor.m.is_applied
    /\ ~m.is_applied
    /\ procs["upgrade"].rules # <<>>

\* C3: to_dict(unique=False) returns exactly the keys name, version,
\* checksum, is_applied, description with the migration's current values;
\* to_dict(unique=True) returns the same plus the one key _id, equal to
\* version; to_dict changes neither the migration nor its processes.
C3_ToDictKeys ==
    [][last'.op = "to_dict" =>
         /\ DOMAIN last'.ret =
                IF last'.arg THEN ScalarFields \cup {"_id"} ELSE ScalarFields
         /\ \A f \in ScalarFields : last'.ret[f] = m[f]
         /\ last'.arg => last'.ret["_id"] = m.version
         /\ m' = m
         /\ procs' = procs]_vars

\* to_dict(unique=True) of a migration whose flag was changed after
\* construction.
C3_Witness ==
    /\ last.op = "to_dict"
    /\ last.arg = TRUE
    /\ "_id" \in DOMAIN last.ret
    /\ m.is_applied # ctor.m.is_applied

\* C4: from_dict raises, and returns no read model, when the mapping without
\* its _id key lacks one of the five required keys; when exactly the five
\* keys remain it returns a read model holding the mapping's values.
C4_FromDictRequiresAllKeys ==
    last.op = "from_dict" =>
        LET remaining == DOMAIN last.arg \ {"_id"}
        IN  /\ (ScalarFields \ remaining # {}) =>
                   /\ last.ret.raised # "none"
                   /\ last.ret.value = <<>>
            /\ (remaining = ScalarFields) =>
                   /\ last.ret.raised = "none"
                   /\ Len(last.ret.value) = 1
                   /\ DOMAIN last.ret.value[1] = ScalarFields
                   /\ \A f \in ScalarFields :
                          last.ret.value[1][f] = last.arg[f]

\* A persisted document with its _id but without is_applied is refused.
C4_Witness ==
    /\ last.op = "from_dict"
    /\ DOMAIN last.arg = (ScalarFields \ {"is_applied"}) \cup {"_id"}
    /\ last.ret.raised = "TypeError"

\* C5: a new process has no rules; add_rule(r) appends r to the rules of the
\* process it is called on, returns that process and changes nothing else;
\* no step removes, replaces or reorders a rule already attached; has_rules
\* is true iff at least one rule is attached.
C5_AddRuleAppends ==
    /\ \A d \in Dirs : procs[d].rules = <<>> /\ ~has_rules(procs[d])
    /\ [](last.op = "has_rules" =>
            (last.ret <=> Len(procs[last.on].rules) >= 1))
    /\ [][/\ \A d \in Dirs :
               /\ Len(procs'[d].rules) >= Len(procs[d].rules)
               /\ SubSeq(procs'[d].rules, 1, Len(procs[d].rules)) = procs[d].rules
          /\ last'.op = "add_rule" =>
               /\ last'.ret = last'.on
               /\ procs'[last'.on].rules =
                      procs[last'.on].rules \o <<last'.arg>>
               /\ procs'[last'.on].commands = procs[last'.on].commands
               /\ procs'[last'.on].name = procs[last'.on].name
               /\ procs'[last'.on].migration_version =
                      procs[last'.on].migration_version
               /\ \A d \in Dirs \ {last'.on} : procs'[d] = procs[d]
               /\ m' = m]_vars

\* Two different rules attached to the upgrade process, the dependent one
\* first, and has_rules then asked of it.
C5_Witness ==
    /\ last.op = "has_rules"
    /\ last.on = "upgrade"
    /\ last.ret = TRUE
    /\ Len(procs["upgrade"].rules) >= 2
    /\ procs["upgrade"].rules[1] = "R2"
    /\ procs["upgrade"].rules[2] = "R1"

(***************************************************************************)
(* Claims about rule evaluation and execution.                             *)
(***************************************************************************)
\* The rules the last execution evaluated, and what it recorded for them.
RunRules == procs[last.on].rules

RunStatus == last.ret.status

RunCalls == last.ret.calls

\* Position i names a dependency that no earlier rule of the pass carries,
\* or that an earlier rule marked broken carries.
UnmetDependency(i) ==
    \E dep \in Range(depends_on(RunRules[i])) :
        \/ \A j \in 1..(i - 1) : rule_name(RunRules[j]) # dep
        \/ \E j \in 1..(i - 1) :
               rule_name(RunRules[j]) = dep /\ RunStatus[j] = "broken"

RuleContract(i) ==
    /\ UnmetDependency(i) => RunStatus[i] = "broken" /\ RunCalls[i] = 0
    /\ ~UnmetDependency(i) => RunCalls[i] = 1

RaisedBefore(i) == \E j \in 1..(i - 1) : RunStatus[j] = "raised"

\* C6 as stated: in every pass, every rule with an unmet or broken
\* dependency is reported broken with no invocation of check_is_broken, and
\* every other rule has check_is_broken invoked exactly once.
C6_Original ==
    last.op = "execute" =>
        /\ Len(RunStatus) = Len(RunCalls)
        /\ has_rules(procs[last.on]) => Len(RunStatus) = Len(RunRules)
        /\ \A i \in DOMAIN RunStatus : RuleContract(i)

\* C6 amended: the same, for every rule the pass reaches before a
\* check_is_broken raises an error; the rules after a raised error are not
\* invoked and not reported.
C6_DependencyShortCircuit ==
    last.op = "execute" =>
        /\ Len(RunStatus) = Len(RunCalls)
        /\ has_rules(procs[last.on]) => Len(RunStatus) = Len(RunRules)
        /\ \A i \in DOMAIN RunStatus :
               IF RaisedBefore(i)
               THEN RunStatus[i] = "not_evaluated" /\ RunCalls[i] = 0
               ELSE RuleContract(i)

\* R1 broken by its own check, R2 and R3 broken through the chain of
\* dependencies without being invoked.
C6_Witness ==
    /\ last.op = "execute"
    /\ RunRules = <<"R1", "R2", "R3">>
    /\ RunStatus = <<"broken", "broken", "broken">>
    /\ RunCalls = <<1, 0, 0>>

BrokenPositions ==
    SelectSeq([i \in 1..Len(RunStatus) |-> i],
              LAMBDA i : RunStatus[i] = "broken")

\* C7: when the pass reports a broken rule, no command of the process is
\* started, the migration keeps its is_applied flag, and the result is the
\* non-empty list of the broken rules' diagnostics in rule-sequence order.
C7_BrokenRuleBlocks ==
    /\ [](last.op = "execute" /\ BrokenPositions # <<>> =>
            /\ last.ret.started = <<>>
            /\ last.ret.outcome \in {"blocked", "rule_fault"}
            /\ last.ret.outcome = "blocked" =>
                   /\ last.ret.diagnostics # <<>>
                   /\ last.ret.diagnostics =
                          [k \in 1..Len(BrokenPositions) |->
                              <<"Business rule ",
                                rule_name(RunRules[BrokenPositions[k]]),
                                " is broken.">>])
    /\ [](last.op = "execute" /\ last.ret.outcome = "blocked" =>
            BrokenPositions # <<>>)
    /\ [][last'.op = "execute" /\ last'.ret.diagnostics # <<>> =>
            m' = m]_vars

\* The scenario of two rules: R1 broken, R2 depending on it; both are
\* reported, in that order, and no command runs.
C7_Witness ==
    /\ last.op = "execute"
    /\ last.on = "upgrade"
    /\ RunRules = <<"R1", "R2">>
    /\ last.ret.outcome = "blocked"
    /\ Len(last.ret.diagnostics) = 2
    /\ last.ret.diagnostics[1][2] = "R1"
    /\ last.ret.diagnostics[2][2] = "R2"
    /\ last.ret.started = <<>>

\* C8: is_applied is true right after a successful upgrade execution and
\* false right after a successful downgrade execution; a blocked or failed
\* execution, and every other step, leaves it as it was; the read model
\* from_migration builds carries the migration's is_applied.
C8_AppliedFollowsExecution ==
    /\ [](last.op = "from_migration" =>
            /\ last.ret.raised = "none"
            /\ last.ret.value[1].is_applied = m.is_applied)
    /\ [][IF last'.op = "execute" /\ last'.ret.outcome = "done"
          THEN m'.is_applied = (last'.on = "upgrade")
          ELSE m'.is_applied = m.is_applied]_vars

\* A migration constructed unapplied, its upgrade executed with success, and
\* the read model taken afterwards.
C8_Witness ==
    /\ last.op = "from_migration"
    /\ ~ctor.m.is_applied
    /\ m.is_applied
    /\ last.ret.value[1].is_applied

(***************************************************************************)
(* Claims about the filename strategies.                                   *)
(***************************************************************************)
\* The filename starts with exactly three digits and then an underscore.
ThreeDigitsUnderscore(f) ==
    /\ Len(f) >= 4
    /\ f[1] \in Range(DigitChars)
    /\ f[2] \in Range(DigitChars)
    /\ f[3] \in Range(DigitChars)
    /\ f[4] = "_"

\* C9: Numerical.is_valid_filename(f) is true iff f starts with three digits
\* and an underscore; for f not valid and a position p in 0..999,
\* transform_migration_filename(f, p) is p in three zero-padded decimal
\* digits, an underscore, then f unchanged, and that result is valid.
C9_NumericalPrefix ==
    /\ last.op = "is_valid_filename" /\ last.on = "Numerical" =>
           (last.ret <=> ThreeDigitsUnderscore(last.arg.filename))
    /\ /\ last.op = "transform_migration_filename"
       /\ last.on = "Numerical"
       /\ ~is_valid_filename("Numerical", last.arg.filename)
       /\ last.arg.position \in 0..999
       => /\ last.ret =
                 <<Digit(last.arg.position \div 100),
                   Digit((last.arg.position \div 10) % 10),
                   Digit(last.arg.position % 10), "_">>
                     \o last.arg.filename
          /\ ThreeDigitsUnderscore(last.ret)
          /\ is_valid_filename("Numerical", last.ret)

\* Position 45 put before a filename that starts with two digits only.
C9_Witness ==
    /\ last.op = "transform_migration_filename"
    /\ last.on = "Numerical"
    /\ last.arg.position = 45
    /\ last.arg.filename = <<"1", "2", "_", "a">>
    /\ last.ret = <<"0", "4", "5", "_", "1", "2", "_", "a">>

ValidIsUnchanged ==
    /\ last.op = "is_valid_filename" /\ last.on = "Missing" => last.ret
    /\ /\ last.op = "transform_migration_filename"
       /\ is_valid_filename(last.on, last.arg.filename)
       => last.ret = last.arg.filename
    /\ /\ last.op = "transform_migration_filename"
       /\ last.on = "Missing"
       => last.ret = last.arg.filename

\* C10 as stated: a valid filename is returned unchanged at every position,
\* by every strategy, and a second transform never changes the result of a
\* first, for every filename and every two positions.
C10_Original ==
    /\ ValidIsUnchanged
    /\ last.op = "transform_twice" => last.ret.second = last.ret.first

\* C10 amended: a valid filename is returned unchanged at every position,
\* by every strategy (for Missing: every filename); a second transform does
\* not change the result of a first whenever that result is valid, which it
\* is for every valid filename, for every filename under Missing, and under
\* Numerical for every position in 0..999.
C10_ValidUnchanged ==
    /\ ValidIsUnchanged
    /\ last.op = "transform_twice" =>
           /\ is_valid_filename(last.on, last.ret.first) =>
                  last.ret.second = last.ret.first
           /\ is_valid_filename(last.on, last.arg.filename) =>
                  /\ last.ret.first = last.arg.filename
                  /\ last.ret.second = last.arg.filename
           /\ last.on = "Missing" =>
                  /\ last.ret.first = last.arg.filename
                  /\ last.ret.second = last.arg.filename
           /\ last.on = "Numerical" /\ last.arg.position \in 0..999 =>
                  last.ret.second = last.ret.first

\* A Numerical filename numbered 123 transformed at positions 2 and 45.
C10_Witness ==
    /\ last.op = "transform_twice"
    /\ last.on = "Numerical"
    /\ last.arg.filename = <<"1", "2", "3", "_", "a">>
    /\ last.arg.position = 2
    /\ last.arg.again = 45
    /\ last.ret.second = last.arg.filename

\* The filename starts with n digits, n at least 10, and then an underscore.
TenDigitsUnderscore(f) ==
    \E n \in 10..(Len(f) - 1) :
        /\ \A i \in 1..n : f[i] \in Range(DigitChars)
        /\ f[n + 1] = "_"

\* C11: Unix.is_valid_filename(f) is true iff the run of digits f starts
\* with has at least 10 digits and is followed at once by an underscore; a
\* filename with no or with fewer than 10 leading digits is not valid.
C11_UnixTimestampPrefix ==
    last.op = "is_valid_filename" /\ last.on = "Unix" =>
        /\ last.ret <=> TenDigitsUnderscore(last.arg.filename)
        /\ (\E i \in 1..10 :
               \/ i > Len(last.arg.filename)
               \/ last.arg.filename[i] \notin Range(DigitChars))
           => ~last.ret

\* A filename of exactly ten digits, an underscore and a name is valid.
C11_Witness ==
    /\ last.op = "is_valid_filename"
    /\ last.on = "Unix"
    /\ last.arg.filename =
           <<"1", "2", "3", "4", "5", "6", "7", "8", "9", "0", "_", "a">>
    /\ last.ret = TRUE

(***************************************************************************)
(* Claims about the life of a process.                                     *)
(***************************************************************************)
\* C12: once the engine has evaluated or executed a process of the
\* migration, no later step changes the rules of that process, and no step
\* changes the commands of a process the migration holds.
C12_RulesFrozenAfterHandOver ==
    [][/\ last.op = "execute" =>
              procs'[last.on].rules = procs[last.on].rules
       /\ \A d \in Dirs : procs'[d].commands = procs[d].commands]_vars

(***************************************************************************)
(* Claims about the module loaders.                                        *)
(***************************************************************************)
\* The file name without one trailing ".py", or as it is when it has none.
WithoutPyExtension(f) ==
    IF Len(f) >= 3 /\ SubSeq(f, Len(f) - 2, Len(f)) = <<".", "p", "y">>
    THEN SubSeq(f, 1, Len(f) - 3)
    ELSE f

\* C13: the module name import_module and get_module derive from a file
\* name is the file name with exactly one trailing ".py" removed and nothing
\* else removed; import_module imports module_path + "." + that name.
C13_ModuleNameDropsExtension ==
    /\ last.op = "import_module" /\ last.arg.given =>
           last.ret = last.arg.module_path \o <<".">>
                          \o WithoutPyExtension(last.arg.py_file_to_concat)
    /\ last.op = "get_module" =>
           last.ret.name = WithoutPyExtension(last.arg.filename)

====
